---- MODULE Spec2Model ----
(***************************************************************************)
(* Financial-Coach-Agent: the analytics engine (FinancialAnalyzer and the   *)
(* construction of the agent on a transaction list), the dialogue          *)
(* orchestrator (FinancialCoachAgent.chat over the agent/tools graph with  *)
(* its MemorySaver checkpointer) and the voice turn coordinator            *)
(* (FinancialCoachVoiceAgent.llm_node and its data-card publish task).     *)
(*                                                                         *)
(* Text is a sequence of one-character strings, so that strip, join,       *)
(* lower-casing and the keyword substring test are computed, not assumed.  *)
(***************************************************************************)
EXTENDS Integers, Sequences, FiniteSets, TLC

VARIABLES
    store,      \* MemorySaver: thread_id -> persisted message list
    calls,      \* one record per chat() invocation
    turns,      \* one record per llm_node() invocation
    last_handled_user_msg_id,   \* FinancialCoachVoiceAgent field
    tasks,      \* the publish task created by each llm_node invocation
    handled,    \* order in which llm_node invocations passed the dedup test
    transactions,   \* the transaction list handed to FinancialCoachAgent
    agent,      \* outcome of FinancialCoachAgent.__init__
    report      \* the report the analyzer returned last

vars == <<store, calls, turns, last_handled_user_msg_id, tasks, handled,
          transactions, agent, report>>

\* What the dialogue and voice steps leave alone.
analysis == <<transactions, agent, report>>

----------------------------------------------------------------------------
\* Bounds of the model.

\* llm_node() invocations explored when they run one after the other.
MaxCalls == 3

\* chat() invocations of the text loop explored.
MaxChats == 2

\* llm_node() invocations explored when they may overlap.
MaxTurns == 2

\* Tool rounds after which the model of a voice call still settles on a plain
\* answer; past them it keeps requesting tools.
MaxSettleRounds == 1

\* Length of the transaction lists explored.
MaxTxns == 3
MaxFrame == 2
MaxFuel == 7
MaxDining == 13

\* A cap of ten round trips (a model turn and a tool turn each) and the
\* final model turn.
RoundTripLimit == 2 * 10 + 1

\* recursion_limit handed to graph.invoke.
RecursionLimit == 10

CallIds == 1..MaxCalls

----------------------------------------------------------------------------
\* Text helpers.

NoText == <<>>

UpperChars == <<"A","B","C","D","E","F","G","H","I","J","K","L","M",
                "N","O","P","Q","R","S","T","U","V","W","X","Y","Z">>
LowerChars == <<"a","b","c","d","e","f","g","h","i","j","k","l","m",
                "n","o","p","q","r","s","t","u","v","w","x","y","z">>

\* str.lower() on one character.
LowerChar(ch) ==
    IF \E i \in 1..Len(UpperChars) : UpperChars[i] = ch
    THEN LowerChars[CHOOSE i \in 1..Len(UpperChars) : UpperChars[i] = ch]
    ELSE ch

\* str.lower()
Lower(s) == [i \in 1..Len(s) |-> LowerChar(s[i])]

\* kw in s
Contains(kw, s) ==
    \E i \in 1..(Len(s) - Len(kw) + 1) : SubSeq(s, i, i + Len(kw) - 1) = kw

RECURSIVE LStrip(_)
LStrip(s) == IF s # <<>> /\ Head(s) = " " THEN LStrip(Tail(s)) ELSE s

RECURSIVE RStrip(_)
RStrip(s) ==
    IF s # <<>> /\ s[Len(s)] = " " THEN RStrip(SubSeq(s, 1, Len(s) - 1)) ELSE s

\* str.strip()
Strip(s) == RStrip(LStrip(s))

\* " ".join(texts)
RECURSIVE JoinSpace(_)
JoinSpace(texts) ==
    IF texts = <<>> THEN <<>>
    ELSE IF Len(texts) = 1 THEN texts[1]
    ELSE texts[1] \o <<" ">> \o JoinSpace(Tail(texts))

----------------------------------------------------------------------------
\* Numbers of the analyzer. Amounts are whole; averages, months and rates are
\* exact fractions n/d with d > 0 in lowest terms, so that two equal values
\* are the same record.

abs(x) == IF x < 0 THEN -x ELSE x

RECURSIVE GCD(_, _)
GCD(a, b) == IF b = 0 THEN a ELSE GCD(b, a % b)

Frac(n, d) ==
    LET g == GCD(abs(n), abs(d))
        s == IF d < 0 THEN -1 ELSE 1
    IN  [n |-> (s * n) \div g, d |-> (s * d) \div g]

Num(x) == [n |-> x, d |-> 1]
Zero == Num(0)

FAdd(a, b) == Frac(a.n * b.d + b.n * a.d, a.d * b.d)
FSub(a, b) == Frac(a.n * b.d - b.n * a.d, a.d * b.d)
FMul(a, b) == Frac(a.n * b.n, a.d * b.d)
FDiv(a, b) == Frac(a.n * b.d, a.d * b.n)
FLess(a, b) == a.n * b.d < b.n * a.d
FMax(a, b) == IF FLess(a, b) THEN b ELSE a

----------------------------------------------------------------------------
\* Transaction (models/transaction.py): date, amount and category are what
\* the analyzer reads. A date is a count of half days from 1 January of a
\* common year, so that a span may fall between two whole numbers of days.

TicksPerDay == 2

Transaction(date, amount, category) ==
    [date |-> date, amount |-> amount, category |-> category]

\* (max(dates) - min(dates)).days
SpanDays(txns) ==
    LET dates == {txns[i].date : i \in 1..Len(txns)}
        latest == CHOOSE x \in dates : \A y \in dates : y <= x
        earliest == CHOOSE x \in dates : \A y \in dates : x <= y
    IN  (latest - earliest) \div TicksPerDay

\* date.strftime("%Y-%m"): the month of the year the day falls in.
MonthLengths == <<31, 28, 31, 30, 31, 30, 31, 31, 30, 31, 30, 31>>

RECURSIVE MonthFrom(_, _)
MonthFrom(day, m) ==
    IF day < MonthLengths[m] THEN m ELSE MonthFrom(day - MonthLengths[m], m + 1)

MonthKey(date) == MonthFrom(date \div TicksPerDay, 1)

----------------------------------------------------------------------------
\* FinancialAnalyzer (analysis/financial_analyzer.py).

NoError == [kind |-> "none", days |-> 0]

\* A validation that refuses a span of exactly 30 days as well.
validate_data_strict(txns) ==
    IF txns = <<>> THEN [kind |-> "No transactions provided.", days |-> 0]
    ELSE IF SpanDays(txns) <= 30
         THEN [kind |-> "Not enough data: only {span} days of transactions.",
               days |-> SpanDays(txns)]
         ELSE NoError

\* _validate_data: the ValueError it raises (the text and the span put into
\* it), or NoError.
validate_data(txns) ==
    IF txns = <<>> THEN [kind |-> "No transactions provided.", days |-> 0]
    ELSE IF SpanDays(txns) < 30
         THEN [kind |-> "Not enough data: only {span} days of transactions.",
               days |-> SpanDays(txns)]
         ELSE NoError

\* _months
months(txns) == FMax(Frac(SpanDays(txns), 30), Num(1))

\* A dict in insertion order: a sequence of key/value entries.
Keys(dict) == {dict[i].key : i \in 1..Len(dict)}
Get(dict, key, default) ==
    IF key \in Keys(dict)
    THEN dict[CHOOSE i \in 1..Len(dict) : dict[i].key = key].value
    ELSE default

\* result[key] += amount on a defaultdict(float)
AddTo(dict, key, amount) ==
    IF key \in Keys(dict)
    THEN [i \in 1..Len(dict) |->
            IF dict[i].key = key
            THEN [key |-> key, value |-> dict[i].value + amount]
            ELSE dict[i]]
    ELSE Append(dict, [key |-> key, value |-> amount])

\* sum(dict.values())
RECURSIVE SumValues(_)
SumValues(dict) ==
    IF dict = <<>> THEN 0 ELSE dict[1].value + SumValues(Tail(dict))

\* A grouping that takes every transaction, whatever its sign.
RECURSIVE SpendingByAnySign(_, _)
SpendingByAnySign(txns, result) ==
    IF txns = <<>> THEN result
    ELSE SpendingByAnySign(Tail(txns),
             AddTo(result, Head(txns).category, abs(Head(txns).amount)))

\* The loop of get_spending_by_category over the transactions left.
RECURSIVE SpendingBy(_, _)
SpendingBy(txns, result) ==
    IF txns = <<>> THEN result
    ELSE LET t == Head(txns)
         IN  SpendingBy(Tail(txns),
                 IF t.amount < 0
                 THEN AddTo(result, t.category, abs(t.amount))
                 ELSE result)

get_spending_by_category(txns) == SpendingBy(txns, <<>>)

\* The loop of get_monthly_spending.
RECURSIVE MonthlyBy(_, _)
MonthlyBy(txns, result) ==
    IF txns = <<>> THEN result
    ELSE LET t == Head(txns)
         IN  MonthlyBy(Tail(txns),
                 IF t.amount < 0
                 THEN AddTo(result, MonthKey(t.date), abs(t.amount))
                 ELSE result)

get_monthly_spending(txns) == MonthlyBy(txns, <<>>)

\* sum(values) / len(values) if values else 0
Mean(dict) ==
    IF dict = <<>> THEN Zero ELSE Frac(SumValues(dict), Len(dict))

\* sum(t.amount for t in txns)
RECURSIVE SumAmounts(_)
SumAmounts(txns) ==
    IF txns = <<>> THEN 0 ELSE Head(txns).amount + SumAmounts(Tail(txns))

\* sum(abs(t.amount) for t in txns)
RECURSIVE SumAbs(_)
SumAbs(txns) ==
    IF txns = <<>> THEN 0 ELSE abs(Head(txns).amount) + SumAbs(Tail(txns))

\* Elapsed months taken from all transactions instead of the income ones.
IncomeMonthsOfAll(txns, income_txns) == months(txns)

\* max((max(dates) - min(dates)).days / 30, 1) over the income transactions
IncomeMonths(txns, income_txns) ==
    FMax(Frac(SpanDays(income_txns), 30), Num(1))

\* A no-income report that still averages the monthly spending.
NoIncomeSummaryWithSpending(txns) ==
    [total |-> Zero, average_monthly |-> Zero, count |-> Zero,
     months_covered |-> Zero, monthly_savings |-> Zero, savings_rate |-> Zero,
     average_monthly_spending |-> Mean(get_monthly_spending(txns))]

\* The report get_income_summary returns without income transactions.
NoIncomeSummary(txns) ==
    [total |-> Zero, average_monthly |-> Zero, count |-> Zero,
     months_covered |-> Zero, monthly_savings |-> Zero, savings_rate |-> Zero,
     average_monthly_spending |-> Zero]

get_income_summary(txns) ==
    LET income_txns == SelectSeq(txns, LAMBDA t : t.amount > 0)
    IN  IF income_txns = <<>> THEN NoIncomeSummary(txns)
        ELSE LET total == SumAmounts(income_txns)
                 elapsed == IncomeMonths(txns, income_txns)
                 avg_income == FDiv(Num(total), elapsed)
                 avg_spending == Mean(get_monthly_spending(txns))
                 savings == FSub(avg_income, avg_spending)
             IN  [total |-> Num(total),
                  average_monthly |-> avg_income,
                  count |-> Num(Len(income_txns)),
                  months_covered |-> elapsed,
                  monthly_savings |-> savings,
                  savings_rate |->
                      IF FLess(Zero, avg_income)
                      THEN FMul(FDiv(savings, avg_income), Num(100))
                      ELSE Zero,
                  average_monthly_spending |-> avg_spending]

debt_categories == {"loan_payment", "debt_payment", "credit_card_payment"}

\* The loop of get_debt_analysis over the debt transactions.
RECURSIVE DebtMonthlyBy(_, _)
DebtMonthlyBy(debt_txns, monthly) ==
    IF debt_txns = <<>> THEN monthly
    ELSE LET t == Head(debt_txns)
         IN  DebtMonthlyBy(Tail(debt_txns),
                 AddTo(monthly, MonthKey(t.date), abs(t.amount)))

Strategy(name, potential) == [strategy |-> name, monthly_allocation |-> potential]

\* Strategies offered whether or not there is any debt payment.
StrategiesAlways(avg_monthly, potential) ==
    <<Strategy("debt_snowball", potential), Strategy("debt_avalanche", potential)>>

\* strategies = [] unless avg_monthly > 0
Strategies(avg_monthly, potential) ==
    IF FLess(Zero, avg_monthly)
    THEN <<Strategy("debt_snowball", potential), Strategy("debt_avalanche", potential)>>
    ELSE <<>>

\* An allocation that adds half the savings even when they are negative.
PotentialUnclamped(avg_monthly, available) ==
    FAdd(avg_monthly, FMul(available, Frac(1, 2)))

\* potential = avg_monthly + max(0, available * 0.5)
Potential(avg_monthly, available) ==
    FAdd(avg_monthly, FMax(Zero, FMul(available, Frac(1, 2))))

get_debt_analysis(txns) ==
    LET debt_txns == SelectSeq(txns, LAMBDA t : t.category \in debt_categories)
        total == SumAbs(debt_txns)
        monthly == DebtMonthlyBy(debt_txns, <<>>)
        avg_monthly == Mean(monthly)
        available == get_income_summary(txns).monthly_savings
        potential == Potential(avg_monthly, available)
    IN  [total_debt_payments |-> Num(total),
         average_monthly_debt |-> avg_monthly,
         debt_transaction_count |-> Len(debt_txns),
         monthly_breakdown |-> monthly,
         strategies |-> Strategies(avg_monthly, potential),
         available_for_debt |-> available]

\* targets of get_budget_recommendations, in declaration order.
targets ==
    << [category |-> "rent", pct |-> 30],
       [category |-> "groceries", pct |-> 10],
       [category |-> "fuel", pct |-> 5],
       [category |-> "utilities", pct |-> 5],
       [category |-> "dining", pct |-> 5],
       [category |-> "shopping", pct |-> 5] >>

\* category.value.replace("_", " ").title() on the target categories
Title(category) ==
    CASE category = "rent"      -> "Rent"
      [] category = "groceries" -> "Groceries"
      [] category = "fuel"      -> "Fuel"
      [] category = "utilities" -> "Utilities"
      [] category = "dining"    -> "Dining"
      [] category = "shopping"  -> "Shopping"

\* (avg_income * pct / 100) if avg_income > 0 else 0
Recommended(avg_income, pct) ==
    IF FLess(Zero, avg_income)
    THEN FDiv(FMul(avg_income, Num(pct)), Num(100))
    ELSE Zero

\* A test that flags whatever exceeds the recommended amount.
FlaggedOverRecommended(actual, recommended) == FLess(recommended, actual)

\* actual > recommended * 1.2
Flagged(actual, recommended) == FLess(FMul(recommended, Frac(12, 10)), actual)

\* The loop of get_budget_recommendations from target i on.
RECURSIVE BudgetLoop(_, _, _, _, _, _)
BudgetLoop(i, avg_income, spending, elapsed, recommendations, total_recommended) ==
    IF i > Len(targets)
    THEN [recommendations |-> recommendations,
          total_recommended |-> total_recommended]
    ELSE LET category == targets[i].category
             recommended == Recommended(avg_income, targets[i].pct)
             actual == FDiv(Num(Get(spending, category, 0)), elapsed)
         IN  BudgetLoop(i + 1, avg_income, spending, elapsed,
                 IF Flagged(actual, recommended)
                 THEN Append(recommendations,
                             [category |-> Title(category),
                              recommended_monthly |-> recommended,
                              actual_monthly |-> actual,
                              reduction |-> FSub(actual, recommended)])
                 ELSE recommendations,
                 FAdd(total_recommended, recommended))

get_budget_recommendations(txns) ==
    LET income == get_income_summary(txns)
        looped == BudgetLoop(1, income.average_monthly,
                             get_spending_by_category(txns), months(txns),
                             <<>>, Zero)
    IN  [recommendations |-> looped.recommendations,
         average_monthly_income |-> income.average_monthly,
         average_monthly_spending |-> income.average_monthly_spending,
         total_recommended_budget |-> looped.total_recommended]

\* sorted(dict.items(), key=lambda x: x[1], reverse=True): by value, largest
\* first, items of equal value in insertion order.
RECURSIVE InsertDesc(_, _)
InsertDesc(sorted, item) ==
    IF sorted = <<>> THEN <<item>>
    ELSE IF Head(sorted).value >= item.value
         THEN <<Head(sorted)>> \o InsertDesc(Tail(sorted), item)
         ELSE <<item>> \o sorted

RECURSIVE SortInto(_, _)
SortInto(sorted, dict) ==
    IF dict = <<>> THEN sorted
    ELSE SortInto(InsertDesc(sorted, Head(dict)), Tail(dict))

\* A sort that leaves the items of the dict in insertion order.
SortedAsInserted(dict) == dict

SortedDesc(dict) == SortInto(<<>>, dict)

\* The loop of identify_spending_patterns over the sorted categories.
RECURSIVE HighSpending(_, _, _)
HighSpending(sorted, elapsed, avg_monthly) ==
    IF sorted = <<>> THEN <<>>
    ELSE LET monthly_avg == FDiv(Num(Head(sorted).value), elapsed)
         IN  (IF FLess(FMul(avg_monthly, Frac(3, 10)), monthly_avg)
              THEN << [type |-> "high_spending",
                       category |-> Head(sorted).key,
                       monthly_average |-> monthly_avg] >>
              ELSE <<>>)
                 \o HighSpending(Tail(sorted), elapsed, avg_monthly)

\* if CATEGORY in category_spending: count every transaction of the category
\* and flag a count > per_month * months * 1.5
Frequent(txns, category_spending, category, type, per_month, elapsed) ==
    LET frequency == Len(SelectSeq(txns, LAMBDA t : t.category = category))
    IN  IF /\ category \in Keys(category_spending)
           /\ FLess(FMul(FMul(Num(per_month), elapsed), Frac(3, 2)), Num(frequency))
        THEN << [type |-> type, category |-> category, frequency |-> frequency] >>
        ELSE <<>>

identify_spending_patterns(txns) ==
    LET category_spending == get_spending_by_category(txns)
        avg_monthly == Mean(get_monthly_spending(txns))
        elapsed == months(txns)
    IN  HighSpending(SortedDesc(category_spending), elapsed, avg_monthly)
            \o Frequent(txns, category_spending, "fuel", "frequent_fuel", 4, elapsed)
            \o Frequent(txns, category_spending, "dining", "frequent_dining", 8, elapsed)

----------------------------------------------------------------------------
\* FinancialCoachAgent._build_voice_context.

\* format(x, ".0f") as a number: the nearest integer, a tie to the even one.
RoundHalfEven(x) ==
    LET floor == x.n \div x.d
        rest == x.n - floor * x.d
    IN  IF 2 * rest < x.d THEN floor
        ELSE IF 2 * rest > x.d THEN floor + 1
        ELSE IF floor % 2 = 0 THEN floor ELSE floor + 1

\* format(x, ".1f") as a number of tenths.
RoundTenths(x) == Frac(RoundHalfEven(FMul(x, Num(10))), 10)

Line(kind, names, values) == [kind |-> kind, names |-> names, values |-> values]

\* The two lines of the spending block: the top three categories with their
\* share of the total in percent, and the total. A division by a zero total
\* raises before the first append and the except clause passes.
SpendingLines(txns) ==
    LET spending == get_spending_by_category(txns)
        total == SumValues(spending)
        sorted == SortedDesc(spending)
        top3 == SubSeq(sorted, 1, IF Len(sorted) < 3 THEN Len(sorted) ELSE 3)
    IN  IF spending = <<>> \/ total = 0 THEN <<>>
        ELSE << Line("top_spending",
                     [i \in 1..Len(top3) |-> top3[i].key],
                     [i \in 1..Len(top3) |->
                         RoundHalfEven(Frac(top3[i].value * 100, total))]),
                Line("total_spending", <<>>, <<total>>) >>

IncomeLines(txns) ==
    LET income == get_income_summary(txns)
    IN  IF FLess(Zero, income.total)
        THEN << Line("income", <<>>,
                     << RoundHalfEven(income.average_monthly),
                        RoundHalfEven(income.average_monthly_spending),
                        RoundTenths(income.savings_rate) >>) >>
        ELSE <<>>

\* A debt block that writes its line whatever the total.
DebtLinesAlways(txns) ==
    LET debt == get_debt_analysis(txns)
    IN  << Line("debt", <<>>,
                << RoundHalfEven(debt.average_monthly_debt),
                   RoundHalfEven(debt.available_for_debt) >>) >>

DebtLines(txns) ==
    LET debt == get_debt_analysis(txns)
    IN  IF FLess(Zero, debt.total_debt_payments)
        THEN << Line("debt", <<>>,
                     << RoundHalfEven(debt.average_monthly_debt),
                        RoundHalfEven(debt.available_for_debt) >>) >>
        ELSE <<>>

\* "No transaction data available."
NoDataLine == Line("no_data", <<>>, <<>>)

\* The lines joined by "\n", or the no-data sentence when there is none.
build_voice_context(txns) ==
    LET lines == SpendingLines(txns) \o IncomeLines(txns) \o DebtLines(txns)
    IN  IF lines # <<>> THEN lines ELSE <<NoDataLine>>

----------------------------------------------------------------------------
\* FinancialCoachAgent.__init__ and the calls of the report methods.

NotBuilt == [status |-> "none", error |-> NoError, voice_context |-> <<>>]
NoReport == [name |-> "none", value |-> <<>>]

\* The outcome of FinancialCoachAgent(user_id, transactions): the analyzer is
\* built first, the API key is looked at next.
NewAgent(txns, api_key) ==
    IF validate_data(txns) # NoError
    THEN [status |-> "ValueError", error |-> validate_data(txns),
          voice_context |-> <<>>]
    ELSE IF ~ api_key
         THEN [status |-> "ValueError",
               error |-> [kind |-> "CEREBRAS_API_KEY not set.", days |-> 0],
               voice_context |-> <<>>]
         ELSE [status |-> "constructed", error |-> NoError,
               voice_context |-> build_voice_context(txns)]

\* The transaction lists explored: up to MaxTxns transactions, in any order,
\* dated 1 January, 31 January and noon of 1 March (30 days, 29 days and a
\* half, and 59 days and a half apart).
Dates == {0, 60, 119}
Entries == { <<-60, "rent">>, <<-40, "dining">>, <<-10, "loan_payment">>,
             <<20, "loan_payment">>, <<0, "loan_payment">>, <<50, "income">> }
Transactions == {Transaction(d, e[1], e[2]) : d \in Dates, e \in Entries}
TransactionLists == UNION {[1..n -> Transactions] : n \in 0..MaxTxns}

\* The list the agent of the dialogue was constructed with.
LoadedTransactions ==
    <<Transaction(0, 50, "income"), Transaction(119, -60, "rent")>>

Construct(api_key) ==
    /\ agent.status = "none"
    /\ agent' = NewAgent(transactions, api_key)
    /\ UNCHANGED <<store, calls, turns, last_handled_user_msg_id, tasks, handled,
                   transactions, report>>

\* One call of a report method of the constructed agent's analyzer.
Call(name, value) ==
    /\ agent.status = "constructed"
    /\ report' = [name |-> name, value |-> value]
    /\ UNCHANGED <<store, calls, turns, last_handled_user_msg_id, tasks, handled,
                   transactions, agent>>

SpendingByCategory ==
    Call("get_spending_by_category", get_spending_by_category(transactions))

MonthlySpending ==
    Call("get_monthly_spending", get_monthly_spending(transactions))

IncomeSummary ==
    Call("get_income_summary", get_income_summary(transactions))

DebtAnalysis ==
    Call("get_debt_analysis", get_debt_analysis(transactions))

BudgetRecommendations ==
    Call("get_budget_recommendations", get_budget_recommendations(transactions))

SpendingPatterns ==
    Call("identify_spending_patterns", identify_spending_patterns(transactions))

----------------------------------------------------------------------------
\* Messages of the graph state.

\* get_system_prompt(): one fixed text per agent instance.
SystemPrompt == <<"S","Y","S">>

\* The default spoken_response of chat().
FallbackText == <<"I","'","v","e">>

\* The text get_system_prompt() returns: the fixed rules around the snapshot
\* kept in self._voice_context.
get_system_prompt == [rules |-> SystemPrompt, snapshot |-> agent.voice_context]

GetSystemPrompt == Call("get_system_prompt", get_system_prompt)

SystemMessage == [role |-> "system", content |-> SystemPrompt, calls |-> <<>>, tag |-> "-"]

HumanMessage(text) == [role |-> "human", content |-> text, calls |-> <<>>, tag |-> "-"]

AIMessage(text, tool_calls) == [role |-> "ai", content |-> text, calls |-> tool_calls, tag |-> "-"]

ToolMessage(text, call_id) == [role |-> "tool", content |-> text, calls |-> <<>>, tag |-> call_id]

\* The tools of create_financial_tools.
ToolNames == {"get_spending_summary", "get_income_analysis", "get_debt_analysis",
              "identify_spending_issues", "get_budget_recommendations"}

\* The text block a tool returns for the agent's (fixed) transaction list.
ToolOutput(name) ==
    CASE name = "get_spending_summary"       -> <<"S","p","e","n","d">>
      [] name = "get_income_analysis"        -> <<"I","n","c">>
      [] name = "get_debt_analysis"          -> <<"D","e","b","t">>
      [] name = "identify_spending_issues"   -> <<"P","a","t">>
      [] name = "get_budget_recommendations" -> <<"B","u","d">>

\* add_messages: every message handed to the graph is new (has no id yet), so
\* the reducer appends.
add_messages(left, right) == left \o right

----------------------------------------------------------------------------
\* FinancialCoachAgent.chat and the graph of _build_graph.

\* user_id of the agent (main.py --user-id default) and the voice agent's
\* session_id ("call_" + 8 hex digits, fixed at construction).
UserId == "default_user"
SessionId == "call_1"
Threads == {UserId, SessionId}

NoThread == "None"
NoHistory == <<>>

\* A chat that keys every call by the agent's user_id.
ThreadOfUserId(thread_id) == UserId

\* thread_id or self.user_id
ThreadOf(thread_id) == IF thread_id = NoThread THEN UserId ELSE thread_id

\* The messages chat() hands to graph.invoke.
ChatInput(conversation_history, user_message) ==
    LET needSystem ==
            \/ conversation_history = <<>>
            \/ ~ \E i \in 1..Len(conversation_history) :
                      conversation_history[i].role = "system"
    IN  (IF needSystem THEN <<SystemMessage>> ELSE <<>>)
            \o conversation_history
            \o <<HumanMessage(user_message)>>

\* should_continue: the conditional edge after the agent node.
should_continue(messages) ==
    IF messages = <<>> THEN "END"
    ELSE LET last_message == messages[Len(messages)]
         IN  IF last_message.role = "ai" /\ last_message.calls # <<>>
             THEN "tools"
             ELSE "END"

\* A ToolNode that runs only the first requested call.
ToolMessagesFirstOnly(tool_calls) ==
    <<ToolMessage(ToolOutput(tool_calls[1].name), tool_calls[1].id)>>

\* ToolNode: one ToolMessage per requested call, in call order, carrying the
\* call's id.
ToolMessages(tool_calls) ==
    [i \in 1..Len(tool_calls) |->
        ToolMessage(ToolOutput(tool_calls[i].name), tool_calls[i].id)]

\* The reversed scan of chat() over result["messages"]: i runs from the last
\* message down to the first, no break.
RECURSIVE ScanResult(_, _, _, _)
ScanResult(messages, i, spoken_response, detailed_data) ==
    IF i = 0 THEN <<spoken_response, detailed_data>>
    ELSE LET msg == messages[i]
             spoken == IF msg.role = "ai" /\ msg.content # <<>> /\ detailed_data = <<>>
                       THEN msg.content
                       ELSE spoken_response
             detail == IF msg.role = "tool" /\ detailed_data = <<>>
                       THEN msg.content
                       ELSE detailed_data
         IN  ScanResult(messages, i - 1, spoken, detail)

\* The dict chat() returns for the final graph state.
ChatResult(messages) ==
    LET scanned == ScanResult(messages, Len(messages), FallbackText, <<>>)
    IN  [voice  |-> scanned[1],
         detail |-> IF scanned[2] = <<>> THEN scanned[1] ELSE scanned[2]]

IdleCall == [pc |-> "idle", thread |-> NoThread, base |-> 0, msgs |-> <<>>,
             steps |-> 0, voice |-> NoText, detail |-> NoText]

InFlight(c) == calls[c].pc \in {"agent", "tools"}

Ended(c) == calls[c].pc \in {"returned", "raised"}

\* chat() up to the first superstep of graph.invoke: the input is merged into
\* the thread's checkpoint by add_messages and the entry point is the agent.
ChatBegin(c, user_message, conversation_history, thread_id) ==
    LET thread == ThreadOf(thread_id)
        merged == add_messages(store[thread],
                               ChatInput(conversation_history, user_message))
    IN  /\ calls[c].pc = "idle"
        /\ calls' = [calls EXCEPT ![c] =
                        [pc |-> "agent", thread |-> thread,
                         base |-> Len(store[thread]), msgs |-> merged,
                         steps |-> 0, voice |-> NoText, detail |-> NoText]]
        /\ store' = [store EXCEPT ![thread] = merged]

\* One superstep running call_model; response is what the model answers.
\* When should_continue routes to END, invoke returns and chat() builds its
\* result from the final state.
AgentNode(c, response) ==
    /\ calls[c].pc = "agent"
    /\ calls[c].steps < RecursionLimit
    /\ LET messages == add_messages(calls[c].msgs, <<response>>)
           result == ChatResult(messages)
       IN  /\ store' = [store EXCEPT ![calls[c].thread] = messages]
           /\ IF should_continue(messages) = "tools"
              THEN calls' = [calls EXCEPT ![c].msgs = messages,
                                          ![c].steps = @ + 1,
                                          ![c].pc = "tools"]
              ELSE calls' = [calls EXCEPT ![c].msgs = messages,
                                          ![c].steps = @ + 1,
                                          ![c].pc = "returned",
                                          ![c].voice = result.voice,
                                          ![c].detail = result.detail]
    /\ UNCHANGED <<turns, last_handled_user_msg_id, tasks, handled, analysis>>

\* One superstep running ToolNode on the last AI message's tool calls.
ToolsNode(c) ==
    /\ calls[c].pc = "tools"
    /\ calls[c].steps < RecursionLimit
    /\ LET last_message == calls[c].msgs[Len(calls[c].msgs)]
           messages == add_messages(calls[c].msgs, ToolMessages(last_message.calls))
       IN  /\ store' = [store EXCEPT ![calls[c].thread] = messages]
           /\ calls' = [calls EXCEPT ![c].msgs = messages,
                                     ![c].steps = @ + 1,
                                     ![c].pc = "agent"]
    /\ UNCHANGED <<turns, last_handled_user_msg_id, tasks, handled, analysis>>

\* recursion_limit supersteps ran and a node is still due: graph.invoke raises
\* GraphRecursionError, which chat() does not catch.
RecursionError(c) ==
    /\ InFlight(c)
    /\ calls[c].steps >= RecursionLimit
    /\ calls' = [calls EXCEPT ![c].pc = "raised"]
    /\ UNCHANGED <<store, turns, last_handled_user_msg_id, tasks, handled, analysis>>

----------------------------------------------------------------------------
\* main.run_text_mode: one chat() per non-empty input line, one after the
\* other, on the default thread; an exception is printed and the loop goes on.

TextInputs == {<<"h","i">>}

TextChat(c, user_input) ==
    /\ c <= MaxChats
    /\ \A d \in 1..(c - 1) : Ended(d)
    /\ ChatBegin(c, user_input, NoHistory, NoThread)
    /\ UNCHANGED <<turns, last_handled_user_msg_id, tasks, handled, analysis>>

\* What the model may answer in the text loop: a plain answer (possibly with
\* empty text) or a request for one or two tools.
Call1 == [name |-> "get_spending_summary", id |-> "k1"]
Call2 == [name |-> "get_debt_analysis", id |-> "k2"]
Call3 == [name |-> "get_budget_recommendations", id |-> "k3"]

TextReplies ==
    {AIMessage(<<"a">>, <<>>), AIMessage(<<"b">>, <<>>), AIMessage(NoText, <<>>),
     AIMessage(NoText, <<Call1>>), AIMessage(<<"w">>, <<Call2, Call3>>)}

\* The request for two tools at once is explored as the first answer of a
\* call; later model turns answer or request one tool.
TextReplyAt(c, response) ==
    Len(response.calls) > 1 => calls[c].steps = 0

----------------------------------------------------------------------------
IdleTurn == [pc |-> "idle", user_text |-> NoText, user_msg_id |-> NoText,
             chunk |-> NoText]

NoTask == [status |-> "none", question |-> NoText, content |-> NoText,
           session_id |-> NoThread]

Init ==
    /\ store = [t \in Threads |-> <<>>]
    /\ calls = [c \in CallIds |-> IdleCall]
    /\ turns = [t \in CallIds |-> IdleTurn]
    /\ last_handled_user_msg_id = <<"None">>
    /\ tasks = [t \in CallIds |-> NoTask]
    /\ handled = <<>>
    /\ transactions = LoadedTransactions
    /\ agent = NewAgent(LoadedTransactions, TRUE)
    /\ report = NoReport

Next ==
    \/ \E c \in CallIds, user_input \in TextInputs : TextChat(c, user_input)
    \/ \E c \in CallIds, response \in TextReplies :
           TextReplyAt(c, response) /\ AgentNode(c, response)
    \/ \E c \in CallIds : ToolsNode(c)
    \/ \E c \in CallIds : RecursionError(c)

Spec == Init /\ [][Next]_vars

----------------------------------------------------------------------------
\* FinancialCoachVoiceAgent (voice_interface.py).

\* _DATA_TRIGGER_KEYWORDS
Keywords ==
    { <<"p","l","a","n">>,
      <<"b","u","d","g","e","t">>,
      <<"b","r","e","a","k","d","o","w","n">>,
      <<"p","a","y","o","f","f">>,
      <<"d","e","b","t">>,
      <<"s","c","h","e","d","u","l","e">>,
      <<"r","e","c","o","m","m","e","n","d">>,
      <<"s","u","m","m","a","r","y">>,
      <<"d","e","t","a","i","l","s">>,
      <<"w","h","a","t"," ","s","h","o","u","l","d">> }

\* any(kw in user_text.lower() for kw in _DATA_TRIGGER_KEYWORDS)
HasKeyword(user_text) == \E kw \in Keywords : Contains(kw, Lower(user_text))

\* An item of the live chat context: its role, its content as a list of text
\* parts (a plain string is one part) and its id; NoId stands for an item
\* without an id attribute.
NoId == <<"-">>
None == <<"None">>
UserRole == <<"u","s","e","r">>
AssistantRole == <<"a","s","s","i","s","t","a","n","t">>
Item(role, parts, id) == [role |-> role, parts |-> parts, id |-> id]

\* A scan that takes a user item's text without stripping it.
RECURSIVE ExtractFromUnstripped(_, _)
ExtractFromUnstripped(messages, i) ==
    IF i = 0 THEN NoText
    ELSE IF Contains(UserRole, Lower(messages[i].role))
              /\ JoinSpace(messages[i].parts) # NoText
         THEN JoinSpace(messages[i].parts)
         ELSE ExtractFromUnstripped(messages, i - 1)

\* The scan of llm_node for the latest user-authored text: from the last
\* item backward, the first user item whose joined, stripped text is non-empty.
RECURSIVE ExtractFrom(_, _)
ExtractFrom(messages, i) ==
    IF i = 0 THEN NoText
    ELSE IF Contains(UserRole, Lower(messages[i].role))
              /\ Strip(JoinSpace(messages[i].parts)) # NoText
         THEN Strip(JoinSpace(messages[i].parts))
         ELSE ExtractFrom(messages, i - 1)

ExtractUserText(messages) == ExtractFrom(messages, Len(messages))

\* messages[-1].id if messages and hasattr(messages[-1], "id") else user_text
UserMsgId(messages, user_text) ==
    IF messages # <<>> /\ messages[Len(messages)].id # NoId
    THEN messages[Len(messages)].id
    ELSE user_text

\* A dedup test that looks at the keywords only.
ShouldPublishAnyId(user_msg_id, last_handled, user_text) == HasKeyword(user_text)

\* The two nested tests of llm_node that guard the publish.
ShouldPublish(user_msg_id, last_handled, user_text) ==
    /\ user_msg_id # last_handled
    /\ HasKeyword(user_text)

\* A coordinator that never records the handled id.
NextHandledIdStale(user_msg_id, last_handled, user_text) == last_handled

\* A coordinator that records every new id, keyword or not.
NextHandledIdAnyText(user_msg_id, last_handled, user_text) ==
    IF user_msg_id # last_handled THEN user_msg_id ELSE last_handled

\* The value of last_handled_user_msg_id after the tests.
NextHandledId(user_msg_id, last_handled, user_text) ==
    IF ShouldPublish(user_msg_id, last_handled, user_text)
    THEN user_msg_id
    ELSE last_handled

\* A coordinator that sends the spoken text as the card's content.
CardContentVoice(agent_response) == agent_response.voice

\* detailed_content = agent_response.get("detail", voice_text)
CardContent(agent_response) == agent_response.detail

\* The arguments of _publish_data_card, held by the created task.
NewTask(question, content, session_id) ==
    [status |-> "pending", question |-> question, content |-> content,
     session_id |-> session_id]

\* The chat contexts a generation turn may be handed: three without any
\* user text (empty, assistant only, blank user item), one whose last user
\* item is blank so that an older one is taken, one with a two-part text and
\* one whose item has no id.
M1 == <<"m","1">>
M2 == <<"m","2">>
M3 == <<"m","3">>
ChatContexts ==
    { <<>>,
      <<Item(AssistantRole, << <<"h","e","y">> >>, M1)>>,
      <<Item(UserRole, << <<" ">> >>, M1)>>,
      <<Item(UserRole, << <<"h","i">> >>, M1),
        Item(AssistantRole, << <<"y","o">> >>, M2),
        Item(<<"U","s","e","r">>, << <<" ">>, <<>> >>, M3)>>,
      <<Item(UserRole, << <<"m","y">>, <<"D","e","b","t">> >>, M1)>>,
      <<Item(UserRole, << <<" ","p","l","a","n"," ">> >>, NoId)>> }

\* What the model may answer during a voice call.
VoiceReplies == {AIMessage(<<"o","k">>, <<>>), AIMessage(NoText, <<Call2>>)}

\* The model settles on a plain answer within MaxSettleRounds tool rounds or
\* goes on requesting tools.
VoiceReplyAt(c, response) ==
    \/ response.calls # <<>>
    \/ Cardinality({i \in 1..Len(calls[c].msgs) :
                        /\ i > calls[c].base
                        /\ calls[c].msgs[i].role = "ai"
                        /\ calls[c].msgs[i].calls # <<>>}) <= MaxSettleRounds

Started(t) == turns[t].pc # "idle"

\* An llm_node that calls chat directly in the coroutine.
ChatOnEventLoopInline(c) == TRUE

\* loop.run_in_executor(None, lambda: self.agent.chat(...)): chat runs on a
\* thread of the default executor, never on the thread of the event loop.
ChatOnEventLoop(c) == FALSE

\* The event loop can run a coroutine step or a task unless a chat call
\* occupies its thread.
EventLoopFree == \A c \in CallIds : InFlight(c) => ~ ChatOnEventLoop(c)

\* llm_node with no extractable user text: the generation is delegated to
\* Agent.llm_node and chat is not called.
LlmNodeDelegate(t, chat_ctx) ==
    /\ EventLoopFree
    /\ turns[t].pc = "idle"
    /\ \A u \in 1..(t - 1) : Started(u)
    /\ ExtractUserText(chat_ctx) = NoText
    /\ turns' = [turns EXCEPT ![t].pc = "delegated"]
    /\ UNCHANGED <<store, calls, last_handled_user_msg_id, tasks, handled, analysis>>

\* llm_node up to its await: chat is handed to the executor with the
\* extracted text, no history and the session id as thread id.
LlmNodeChat(t, chat_ctx) ==
    LET user_text == ExtractUserText(chat_ctx)
    IN  /\ EventLoopFree
        /\ turns[t].pc = "idle"
        /\ \A u \in 1..(t - 1) : Started(u)
        /\ user_text # NoText
        /\ ChatBegin(t, user_text, NoHistory, SessionId)
        /\ turns' = [turns EXCEPT ![t] =
                        [pc |-> "chat", user_text |-> user_text,
                         user_msg_id |-> UserMsgId(chat_ctx, user_text),
                         chunk |-> NoText]]
        /\ UNCHANGED <<last_handled_user_msg_id, tasks, handled, analysis>>

\* llm_node from the return of chat to its yield: the dedup tests, the
\* creation of the publish task and the one spoken chunk, with no await in
\* between.
LlmNodeResume(t) ==
    /\ EventLoopFree
    /\ turns[t].pc = "chat"
    /\ calls[t].pc = "returned"
    /\ LET agent_response == [voice |-> calls[t].voice, detail |-> calls[t].detail]
           user_text == turns[t].user_text
           user_msg_id == turns[t].user_msg_id
           publish == ShouldPublish(user_msg_id, last_handled_user_msg_id, user_text)
       IN  /\ last_handled_user_msg_id' =
                  NextHandledId(user_msg_id, last_handled_user_msg_id, user_text)
           /\ tasks' = IF publish
                       THEN [tasks EXCEPT ![t] =
                                NewTask(user_text, CardContent(agent_response), SessionId)]
                       ELSE tasks
           /\ handled' = Append(handled, [turn |-> t, id |-> user_msg_id,
                                          text |-> user_text, published |-> publish])
           /\ turns' = [turns EXCEPT ![t].pc = "done",
                                     ![t].chunk = agent_response.voice]
    /\ UNCHANGED <<store, calls, analysis>>

\* chat raised in the executor: the await re-raises and llm_node ends without
\* a chunk.
LlmNodeRaise(t) ==
    /\ EventLoopFree
    /\ turns[t].pc = "chat"
    /\ calls[t].pc = "raised"
    /\ turns' = [turns EXCEPT ![t].pc = "raised"]
    /\ UNCHANGED <<store, calls, last_handled_user_msg_id, tasks, handled, analysis>>

\* A publish task whose error escapes into the invocation that created it.
PublishErrorRaised(turn) == [turn EXCEPT !.pc = "raised", !.chunk = NoText]

\* except Exception: logger.warning(...) -- the invocation that created the
\* task is not touched.
PublishErrorEffect(turn) == turn

\* _publish_data_card: publish_data succeeded.
PublishDone(t) ==
    /\ EventLoopFree
    /\ tasks[t].status = "pending"
    /\ tasks' = [tasks EXCEPT ![t].status = "sent"]
    /\ UNCHANGED <<store, calls, turns, last_handled_user_msg_id, handled, analysis>>

\* _publish_data_card: json.dumps or publish_data raised; the warning is
\* logged.
PublishFailed(t) ==
    /\ EventLoopFree
    /\ tasks[t].status = "pending"
    /\ tasks' = [tasks EXCEPT ![t].status = "failed"]
    /\ turns' = [turns EXCEPT ![t] = PublishErrorEffect(turns[t])]
    /\ UNCHANGED <<store, calls, last_handled_user_msg_id, handled, analysis>>

\* The invocations before t have all ended.
Finished(t) == turns[t].pc \in {"done", "delegated", "raised"}
AfterOthers(t) == \A u \in 1..(t - 1) : Finished(u)

\* The steps of the graph and of the publish tasks, whoever started them.
Background ==
    \/ \E c \in CallIds, response \in VoiceReplies :
           VoiceReplyAt(c, response) /\ AgentNode(c, response)
    \/ \E c \in CallIds : ToolsNode(c)
    \/ \E c \in CallIds : RecursionError(c)
    \/ \E t \in CallIds : LlmNodeResume(t)
    \/ \E t \in CallIds : LlmNodeRaise(t)
    \/ \E t \in CallIds : PublishDone(t)
    \/ \E t \in CallIds : PublishFailed(t)

\* Generation turns that may overlap: a new llm_node invocation may start
\* while earlier ones still await their chat call.
NextVoice ==
    \/ \E t \in 1..MaxTurns, chat_ctx \in ChatContexts : LlmNodeDelegate(t, chat_ctx)
    \/ \E t \in 1..MaxTurns, chat_ctx \in ChatContexts : LlmNodeChat(t, chat_ctx)
    \/ Background

\* Generation turns one after the other: an llm_node invocation starts when
\* the one before it has ended (its publish task may still be pending).
NextVoiceSeq ==
    \/ \E t \in CallIds, chat_ctx \in ChatContexts :
           AfterOthers(t) /\ LlmNodeDelegate(t, chat_ctx)
    \/ \E t \in CallIds, chat_ctx \in ChatContexts :
           AfterOthers(t) /\ LlmNodeChat(t, chat_ctx)
    \/ Background

SpecVoiceSeq == Init /\ [][NextVoiceSeq]_vars

SpecVoice == Init /\ [][NextVoice]_vars

----------------------------------------------------------------------------
\* Two session keys on the one agent (create_entrypoint hands the same
\* FinancialCoachAgent, hence the same MemorySaver, to every voice agent):
\* the turns of a voice call on its session id, and chat calls with thread_id
\* omitted, which fall on the agent's user_id, at any moment in between.

VoiceTurns == 1..MaxTurns
DefaultKeyCalls == CallIds \ VoiceTurns

DefaultKeyInputs == {<<"t","i","p">>}

DefaultKeyChat(c, user_input) ==
    /\ \A d \in DefaultKeyCalls : d < c => Ended(d)
    /\ ChatBegin(c, user_input, NoHistory, NoThread)
    /\ UNCHANGED <<turns, last_handled_user_msg_id, tasks, handled, analysis>>

NextSessions ==
    \/ \E t \in VoiceTurns, chat_ctx \in ChatContexts :
           AfterOthers(t) /\ LlmNodeDelegate(t, chat_ctx)
    \/ \E t \in VoiceTurns, chat_ctx \in ChatContexts :
           AfterOthers(t) /\ LlmNodeChat(t, chat_ctx)
    \/ \E c \in DefaultKeyCalls, user_input \in DefaultKeyInputs :
           DefaultKeyChat(c, user_input)
    \/ Background

SpecSessions == Init /\ [][NextSessions]_vars

----------------------------------------------------------------------------
\* The analyzer on its own: any transaction list, the construction of the
\* agent with or without the API key, then report calls in any order.

InitAnalyzer ==
    /\ store = [t \in Threads |-> <<>>]
    /\ calls = [c \in CallIds |-> IdleCall]
    /\ turns = [t \in CallIds |-> IdleTurn]
    /\ last_handled_user_msg_id = <<"None">>
    /\ tasks = [t \in CallIds |-> NoTask]
    /\ handled = <<>>
    /\ transactions \in TransactionLists
    /\ agent = NotBuilt
    /\ report = NoReport

NextAnalyzer ==
    \/ \E api_key \in BOOLEAN : Construct(api_key)
    \/ SpendingByCategory
    \/ MonthlySpending
    \/ IncomeSummary
    \/ DebtAnalysis
    \/ BudgetRecommendations
    \/ GetSystemPrompt

SpecAnalyzer == InitAnalyzer /\ [][NextAnalyzer]_vars

----------------------------------------------------------------------------
\* The spending patterns on lists long enough for the frequency flags: up to
\* MaxFrame transactions in any order, then up to MaxFuel fuel transactions of
\* 1 January and up to MaxDining dining transactions of 31 January, each run
\* either of purchases or of refunds.

FrameTransactions ==
    { Transaction(119, -60, "rent"), Transaction(60, -40, "shopping"),
      Transaction(60, -10, "fuel"), Transaction(0, 50, "income") }

Repeat(txn, n) == [i \in 1..n |-> txn]

PatternLists ==
    { frame \o Repeat(Transaction(0, fuel, "fuel"), f)
            \o Repeat(Transaction(60, dining, "dining"), g) :
        frame \in UNION {[1..n -> FrameTransactions] : n \in 0..MaxFrame},
        fuel \in {-10, 20}, f \in 0..MaxFuel,
        dining \in {-40, 5}, g \in 0..MaxDining }

InitPatterns ==
    /\ store = [t \in Threads |-> <<>>]
    /\ calls = [c \in CallIds |-> IdleCall]
    /\ turns = [t \in CallIds |-> IdleTurn]
    /\ last_handled_user_msg_id = <<"None">>
    /\ tasks = [t \in CallIds |-> NoTask]
    /\ handled = <<>>
    /\ transactions \in PatternLists
    /\ agent = NotBuilt
    /\ report = NoReport

NextPatterns ==
    \/ \E api_key \in BOOLEAN : Construct(api_key)
    \/ SpendingPatterns

SpecPatterns == InitPatterns /\ [][NextPatterns]_vars

----------------------------------------------------------------------------
\* Reading a message list.

IndicesOf(messages, role) == {i \in 1..Len(messages) : messages[i].role = role}

Max(S) == CHOOSE x \in S : \A y \in S : y <= x
Min(S) == CHOOSE x \in S : \A y \in S : x <= y

\* Positions of the model-authored turns with non-empty text.
SpokenTurns(messages) ==
    {i \in IndicesOf(messages, "ai") : messages[i].content # <<>>}

\* The messages call c itself added after its input (system + user message).
InputLen == Len(ChatInput(NoHistory, NoText))
LoopStart(c) == calls[c].base + InputLen + 1
OwnIndices(c, role) == {i \in IndicesOf(calls[c].msgs, role) : i >= LoopStart(c)}
OwnToolRequests(c) == {i \in OwnIndices(c, "ai") : calls[c].msgs[i].calls # <<>>}

----------------------------------------------------------------------------
\* C1: every chat call that returns gives as spoken text the content of the
\* last model-authored turn with non-empty text of its result, and the fixed
\* fallback text only when the result holds no such turn.
C1_SpokenIsMostRecentModelText ==
    \A c \in CallIds :
        calls[c].pc = "returned" =>
            LET messages == calls[c].msgs
                spoken == SpokenTurns(messages)
            IN  calls[c].voice =
                    IF spoken = {} THEN FallbackText
                    ELSE messages[Max(spoken)].content

\* C2: every chat call that returns gives as detail the content of the most
\* recent tool-result turn when a tool was invoked during the call, and its
\* spoken text when no tool was invoked during the call.
C2_DetailIsLatestToolOrSpoken ==
    \A c \in CallIds :
        calls[c].pc = "returned" =>
            calls[c].detail =
                IF OwnIndices(c, "tool") # {}
                THEN calls[c].msgs[Max(IndicesOf(calls[c].msgs, "tool"))].content
                ELSE calls[c].voice

\* C3: the persisted history of a session key that has seen a chat call holds
\* exactly one system instruction, and it precedes the first user message.
C3_OneSystemInstruction ==
    \A t \in Threads :
        store[t] # <<>> =>
            /\ Cardinality(IndicesOf(store[t], "system")) = 1
            /\ IndicesOf(store[t], "human") # {}
            /\ Min(IndicesOf(store[t], "system")) < Min(IndicesOf(store[t], "human"))

\* C4: a chat call in which the model keeps requesting tools until the
\* iteration cap is hit still returns normally: no exception reaches the
\* caller of chat.
C4_CapReturnsNormally ==
    \A c \in CallIds : calls[c].pc # "raised"

\* The messages of a call from position i on follow the loop: a model turn;
\* if it requests tools, one tool-result turn per requested call, in call
\* order, tagged with the call's id and holding that tool's output, and then
\* again a model turn; if it requests none, nothing follows it.
RECURSIVE FollowsLoop(_, _)
FollowsLoop(messages, i) ==
    IF i > Len(messages) THEN TRUE
    ELSE /\ messages[i].role = "ai"
         /\ LET requested == messages[i].calls
                n == Len(requested)
            IN  IF n = 0 THEN i = Len(messages)
                ELSE IF i = Len(messages) THEN TRUE
                ELSE /\ i + n <= Len(messages)
                     /\ \A j \in 1..n :
                            /\ messages[i + j].role = "tool"
                            /\ messages[i + j].tag = requested[j].id
                            /\ messages[i + j].content = ToolOutput(requested[j].name)
                     /\ FollowsLoop(messages, i + n + 1)

\* C5: within one chat call model turns and tool turns alternate: after a model
\* turn that requests tools every requested tool is executed and exactly one
\* tool-result turn per call, tagged to it, is appended in call order before
\* the next model turn; the call returns exactly when the latest model turn
\* requests no tool, so a call with k tool-requesting turns returns at model
\* turn k + 1 after 2k + 1 supersteps.
C5_LoopAlternates ==
    \A c \in CallIds :
        calls[c].pc # "idle" =>
            LET messages == calls[c].msgs
                last == messages[Len(messages)]
                k == Cardinality(OwnToolRequests(c))
            IN  /\ FollowsLoop(messages, LoopStart(c))
                /\ calls[c].pc = "returned" <=> (last.role = "ai" /\ last.calls = <<>>)
                /\ calls[c].pc = "tools" <=> (last.role = "ai" /\ last.calls # <<>>)
                /\ calls[c].pc = "returned" =>
                       /\ Cardinality(OwnIndices(c, "ai")) = k + 1
                       /\ calls[c].steps = 2 * k + 1

\* A call in which the model requested one tool on each of two turns and then
\* answered: two tool-result turns, returned at the third model turn.
C5_Witness ==
    \E c \in CallIds :
        /\ calls[c].pc = "returned"
        /\ Cardinality(OwnToolRequests(c)) = 2
        /\ Cardinality(OwnIndices(c, "tool")) = 2
        /\ Cardinality(OwnIndices(c, "ai")) = 3

----------------------------------------------------------------------------
\* Claims about the voice turn coordinator.

Published(i) == handled[i].published

\* C6: of two consecutive voice turns with the same extracted text and the
\* same turn identifier, at most one triggers the side-channel publish.
C6_ConsecutiveSameTurnPublishedOnce ==
    \A i \in 1..(Len(handled) - 1) :
        (handled[i].id = handled[i + 1].id /\ handled[i].text = handled[i + 1].text)
            => ~ (Published(i) /\ Published(i + 1))

\* Two consecutive turns with the same text and identifier, the first of
\* which published and the second of which did not.
C6_Witness ==
    \E i \in 1..(Len(handled) - 1) :
        /\ handled[i].id = handled[i + 1].id
        /\ handled[i].text = handled[i + 1].text
        /\ Published(i)
        /\ ~ Published(i + 1)

\* C7 as stated: over any sequence of voice turns the publish is triggered at
\* most once per distinct utterance identifier.
C7_OncePerUtterance ==
    \A i, j \in 1..Len(handled) :
        (Published(i) /\ Published(j) /\ handled[i].id = handled[j].id) => i = j

\* C7, amended: the single stored identifier is that of the latest turn that
\* published, and a turn publishes only when its identifier differs from it;
\* so the publish is triggered at most once per run of turns with one
\* identifier, and an identifier is published again only after a turn with a
\* different identifier has published in between.
C7_OncePerRun ==
    /\ \A i, j \in 1..Len(handled) :
          (i < j /\ Published(i) /\ Published(j) /\ handled[i].id = handled[j].id)
              => \E k \in (i + 1)..(j - 1) :
                     Published(k) /\ handled[k].id # handled[i].id
    /\ LET pub == {i \in 1..Len(handled) : Published(i)}
       IN  last_handled_user_msg_id =
               IF pub = {} THEN None ELSE handled[Max(pub)].id

\* An identifier published, then another one, then the first one again.
C7_Witness ==
    \E i, k, j \in 1..Len(handled) :
        /\ i < k /\ k < j
        /\ Published(i) /\ Published(k) /\ Published(j)
        /\ handled[i].id = handled[j].id
        /\ handled[k].id # handled[i].id

\* C8: at most one chat call is in flight per session key at any time.
C8_OneChatInFlight ==
    \A k \in Threads :
        Cardinality({c \in CallIds : InFlight(c) /\ calls[c].thread = k}) <= 1

\* C9: a publish task exists only for a turn whose own chat call has returned
\* (so it never runs while that call is in progress), and the content of its
\* payload is the detail that call returned.
C9_PublishAfterChat ==
    \A t \in CallIds :
        tasks[t].status # "none" =>
            /\ calls[t].pc = "returned"
            /\ ~ InFlight(t)
            /\ tasks[t].content = calls[t].detail
            /\ tasks[t].question = turns[t].user_text
            /\ tasks[t].session_id = calls[t].thread

\* A publish task is pending for a turn whose call returned a tool output as
\* detail (different from what is spoken) while another call is in flight.
C9_Witness ==
    \E t, u \in CallIds :
        /\ tasks[t].status = "pending"
        /\ tasks[t].content = calls[t].detail
        /\ calls[t].detail # calls[t].voice
        /\ InFlight(u)

\* C10: whatever becomes of a turn's publish task (pending, sent or failed
\* and logged), the llm_node invocation that created it has ended normally
\* with its one chunk, the spoken text of its chat call: the failure is not
\* raised into it.
C10_PublishFailureSwallowed ==
    \A t \in CallIds :
        tasks[t].status \in {"pending", "sent", "failed"} =>
            /\ turns[t].pc = "done"
            /\ turns[t].chunk = calls[t].voice

\* A publish failed for a turn that spoke its chunk.
C10_Witness ==
    \E t \in CallIds :
        /\ tasks[t].status = "failed"
        /\ turns[t].pc = "done"
        /\ turns[t].chunk = calls[t].voice
        /\ turns[t].chunk # NoText

----------------------------------------------------------------------------
\* Claims about the analytics engine, read off the transaction list itself.

Positions == 1..Len(transactions)
Expenses == {i \in Positions : transactions[i].amount < 0}
Incomes == {i \in Positions : transactions[i].amount > 0}
ExpensesOf(category) == {i \in Expenses : transactions[i].category = category}

\* Sum of abs(amount) over the transactions at the positions S.
RECURSIVE TotalAt(_)
TotalAt(S) ==
    IF S = {} THEN 0
    ELSE LET i == CHOOSE j \in S : TRUE
         IN  abs(transactions[i].amount) + TotalAt(S \ {i})

\* Half days between the earliest and the latest date at the positions S.
SpanTicks(S) ==
    IF S = {} THEN 0
    ELSE Max({transactions[i].date : i \in S}) - Min({transactions[i].date : i \in S})

\* Elapsed months of the positions S: their span in whole days over 30, at
\* least 1.
ElapsedMonths(S) == FMax(Frac(SpanTicks(S) \div TicksPerDay, 30), Num(1))

ValidList == transactions # <<>> /\ SpanTicks(Positions) >= 30 * TicksPerDay

SpanMessage == "Not enough data: only {span} days of transactions."
ValidationMessages == {"No transactions provided.", SpanMessage}

\* C12: constructing the agent on an empty list or on one whose dates span
\* under 30 days fails with the validation error, whether or not the API key
\* is set, and the error of a non-empty list states the whole days of the
\* span; on every list spanning at least 30 days no validation error is
\* raised, and the agent is constructed or the missing key is reported.
C12_ValidationExactlyUnderThirtyDays ==
    agent.status # "none" =>
        IF ValidList
        THEN /\ agent.error.kind \notin ValidationMessages
             /\ agent.status = "constructed" <=> agent.error = NoError
        ELSE /\ agent.status = "ValueError"
             /\ agent.error.kind \in ValidationMessages
             /\ agent.error.kind = SpanMessage <=> transactions # <<>>
             /\ transactions # <<>> =>
                   /\ agent.error.days * TicksPerDay <= SpanTicks(Positions)
                   /\ SpanTicks(Positions) < (agent.error.days + 1) * TicksPerDay

\* A list spanning 29 days and a half was refused with 29 in the message.
C12_Witness ==
    /\ agent.status = "ValueError"
    /\ agent.error.kind = SpanMessage
    /\ agent.error.days = 29
    /\ SpanTicks(Positions) = 59

\* C13: spendingByCategory has exactly one key per category with a
\* negative-amount transaction, its value is the sum of abs(amount) over the
\* negative-amount transactions of that category, the values add up to the
\* total expense, and without expense transactions the map is empty.
C13_SpendingByCategorySums ==
    report.name = "get_spending_by_category" =>
        LET spending == report.value
        IN  /\ Keys(spending) = {transactions[i].category : i \in Expenses}
            /\ Len(spending) = Cardinality(Keys(spending))
            /\ \A i \in 1..Len(spending) :
                   spending[i].value = TotalAt(ExpensesOf(spending[i].key))
            /\ SumValues(spending) = TotalAt(Expenses)
            /\ Expenses = {} => spending = <<>>

\* The map of a list with two expenses of one category and a transaction of
\* the same category that is no expense.
C13_Witness ==
    /\ report.name = "get_spending_by_category"
    /\ \E i \in 1..Len(report.value) :
           /\ Cardinality(ExpensesOf(report.value[i].key)) = 2
           /\ \E j \in Positions \ Expenses :
                  transactions[j].category = report.value[i].key

\* C14: debtAnalysis.strategies is non-empty iff average_monthly_debt > 0;
\* when non-empty it is debt_snowball then debt_avalanche with the same
\* monthly_allocation; without any transaction of a debt category the
\* strategies are empty and total_debt_payments is 0.
C14_StrategiesIffDebt ==
    report.name = "get_debt_analysis" =>
        LET debt == report.value
            strategies == debt.strategies
        IN  /\ strategies # <<>> <=> FLess(Zero, debt.average_monthly_debt)
            /\ strategies # <<>> =>
                   /\ Len(strategies) = 2
                   /\ strategies[1].strategy = "debt_snowball"
                   /\ strategies[2].strategy = "debt_avalanche"
                   /\ strategies[1].monthly_allocation = strategies[2].monthly_allocation
            /\ (\A i \in Positions : transactions[i].category \notin debt_categories)
                   => strategies = <<>> /\ debt.total_debt_payments = Zero

\* A debt report with both strategies, for a list with income and savings.
C14_Witness ==
    /\ report.name = "get_debt_analysis"
    /\ Len(report.value.strategies) = 2
    /\ FLess(Zero, report.value.available_for_debt)
    /\ FLess(report.value.average_monthly_debt,
             report.value.strategies[1].monthly_allocation)

\* The six fixed targets as the claim lists them, and the names they are
\* reported under.
TargetOrder == <<"rent", "groceries", "fuel", "utilities", "dining", "shopping">>
TargetPercent == <<30, 10, 5, 5, 5, 5>>
TargetNames == <<"Rent", "Groceries", "Fuel", "Utilities", "Dining", "Shopping">>

\* Total income over the elapsed months of the income transactions.
AverageMonthlyIncome == FDiv(Num(TotalAt(Incomes)), ElapsedMonths(Incomes))

RecommendedFor(i) ==
    IF Incomes = {} THEN Zero
    ELSE FDiv(FMul(AverageMonthlyIncome, Num(TargetPercent[i])), Num(100))

ActualFor(i) ==
    FDiv(Num(TotalAt(ExpensesOf(TargetOrder[i]))), ElapsedMonths(Positions))

OverBudget == {i \in 1..6 : FLess(FMul(RecommendedFor(i), Frac(6, 5)), ActualFor(i))}

RECURSIVE SumRecommended(_)
SumRecommended(i) ==
    IF i = 0 THEN Zero ELSE FAdd(SumRecommended(i - 1), RecommendedFor(i))

\* The targets of a set, in target order.
RECURSIVE InOrder(_, _)
InOrder(S, i) ==
    IF i > 6 THEN <<>>
    ELSE (IF i \in S THEN <<i>> ELSE <<>>) \o InOrder(S, i + 1)

\* C15: budgetRecommendations goes through rent 30, groceries 10, fuel 5,
\* utilities 5, dining 5, shopping 5 percent of the average monthly income in
\* that order; its recommendations are exactly the targets with
\* actual > recommended * 1.2, in that order, where recommended is 0 without
\* income and actual is the category's expense total over the elapsed months
\* of all transactions; total_recommended_budget is the sum of the six
\* recommended values.
C15_BudgetFlagsAndTotal ==
    report.name = "get_budget_recommendations" =>
        LET budget == report.value
            flagged == InOrder(OverBudget, 1)
        IN  /\ Len(budget.recommendations) = Len(flagged)
            /\ \A k \in 1..Len(flagged) :
                   LET rec == budget.recommendations[k]
                   IN  /\ rec.category = TargetNames[flagged[k]]
                       /\ rec.recommended_monthly = RecommendedFor(flagged[k])
                       /\ rec.actual_monthly = ActualFor(flagged[k])
            /\ budget.total_recommended_budget = SumRecommended(6)

\* Rent and dining are both flagged, in that order, for a list with income,
\* while the total covers all six targets.
C15_Witness ==
    /\ report.name = "get_budget_recommendations"
    /\ Len(report.value.recommendations) = 2
    /\ report.value.recommendations[1].category = "Rent"
    /\ report.value.recommendations[2].category = "Dining"
    /\ FLess(Zero, report.value.total_recommended_budget)

\* C16: in every incomeSummary monthly_savings = average_monthly -
\* average_monthly_spending, savings_rate = monthly_savings / average_monthly
\* * 100 when average_monthly > 0 and 0 otherwise, and average_monthly is the
\* total income divided by max(span in days of the income transactions / 30,
\* 1).
C16_SavingsAndRate ==
    report.name = "get_income_summary" =>
        LET income == report.value
        IN  /\ income.monthly_savings =
                   FSub(income.average_monthly, income.average_monthly_spending)
            /\ income.savings_rate =
                   IF FLess(Zero, income.average_monthly)
                   THEN FMul(FDiv(income.monthly_savings, income.average_monthly),
                             Num(100))
                   ELSE Zero
            /\ income.average_monthly = AverageMonthlyIncome

\* An income summary over more than one month of income, with spending
\* above the income.
C16_Witness ==
    /\ report.name = "get_income_summary"
    /\ FLess(Num(1), report.value.months_covered)
    /\ FLess(Zero, report.value.average_monthly_spending)
    /\ FLess(report.value.monthly_savings, Zero)
    /\ FLess(report.value.savings_rate, Zero)

\* C17: without a positive-amount transaction every numeric field of the
\* incomeSummary is zero, average_monthly_spending included, also when the
\* list has expenses.
C17_NoIncomeAllZero ==
    (report.name = "get_income_summary" /\ Incomes = {}) =>
        \A field \in DOMAIN report.value : report.value[field] = Zero

\* The summary of a list with expenses and a zero-amount transaction but no
\* income.
C17_Witness ==
    /\ report.name = "get_income_summary"
    /\ Incomes = {}
    /\ Expenses # {}
    /\ Positions \ Expenses # {}
    /\ report.value.average_monthly_spending = Zero

----------------------------------------------------------------------------
\* Claims about the execution context of chat, delegation and the cap.

\* C18: chat runs off the event loop: while the chat call of a voice turn is
\* in progress the turn has emitted no chunk and the event loop can still run
\* its other events (a pending publish task can complete or fail, the next
\* generation turn can start), and a turn's chunk is emitted only after its
\* chat call has returned.
C18_ChatOffTheEventLoop ==
    \A t \in CallIds :
        /\ turns[t].chunk # NoText => calls[t].pc = "returned"
        /\ turns[t].pc = "done" =>
               calls[t].pc = "returned" /\ turns[t].chunk = calls[t].voice
        /\ InFlight(t) =>
               /\ turns[t].pc = "chat"
               /\ turns[t].chunk = NoText
               /\ \A u \in CallIds :
                      tasks[u].status = "pending" =>
                          ENABLED PublishDone(u) /\ ENABLED PublishFailed(u)
               /\ \A u \in CallIds :
                      (turns[u].pc = "idle" /\ \A v \in 1..(u - 1) : Started(v)) =>
                          \E chat_ctx \in ChatContexts :
                              \/ ENABLED LlmNodeChat(u, chat_ctx)
                              \/ ENABLED LlmNodeDelegate(u, chat_ctx)

\* A chat call is in progress while the publish task of an earlier turn is
\* pending and a later turn has not started.
C18_Witness ==
    \E t, u, v \in CallIds :
        /\ InFlight(t)
        /\ calls[t].steps > 0
        /\ tasks[u].status = "pending"
        /\ turns[v].pc = "idle"

\* An item is user-authored when its role names the user, and has text when
\* one of its parts holds a character that is not a blank.
HasUserText(chat_ctx) ==
    \E i \in 1..Len(chat_ctx) :
        /\ Contains(UserRole, Lower(chat_ctx[i].role))
        /\ \E p \in 1..Len(chat_ctx[i].parts) :
               \E k \in 1..Len(chat_ctx[i].parts[p]) : chat_ctx[i].parts[p][k] # " "

\* C19: a generation turn handed a chat context without non-empty
\* user-authored text cannot invoke chat; it delegates, and the delegating
\* step changes neither the Dialogue State, nor the chat calls, nor the
\* publish tasks, nor last_handled_user_msg_id; a delegated turn has no chat
\* call, no publish task, no chunk of its own and never passed the dedup
\* test.
C19_DelegationChangesNothing ==
    \A t \in CallIds :
        /\ (turns[t].pc = "idle" /\ \A u \in 1..(t - 1) : Started(u)) =>
               \A chat_ctx \in ChatContexts :
                   ~ HasUserText(chat_ctx) =>
                       /\ ~ ENABLED LlmNodeChat(t, chat_ctx)
                       /\ ENABLED LlmNodeDelegate(t, chat_ctx)
                       /\ ~ ENABLED (/\ LlmNodeDelegate(t, chat_ctx)
                                     /\ <<store, calls, tasks,
                                          last_handled_user_msg_id, handled>>' #
                                        <<store, calls, tasks,
                                          last_handled_user_msg_id, handled>>)
        /\ turns[t].pc = "delegated" =>
               /\ calls[t] = IdleCall
               /\ tasks[t] = NoTask
               /\ turns[t].chunk = NoText
               /\ \A i \in 1..Len(handled) : handled[i].turn # t

\* A turn was delegated after an earlier turn had published and left a
\* Dialogue State.
C19_Witness ==
    \E t \in CallIds :
        /\ turns[t].pc = "delegated"
        /\ last_handled_user_msg_id # None
        /\ store[SessionId] # <<>>
        /\ \E u \in CallIds : tasks[u].status # "none"

\* The last message of a call's result is a model turn without tool request.
EndsWithPlainAnswer(c) ==
    LET last == calls[c].msgs[Len(calls[c].msgs)]
    IN  last.role = "ai" /\ last.calls = <<>>

\* C20 as stated: the cap permits 10 round trips, so every call that ended
\* after the model requested tools on at most 9 turns ended normally, at the
\* plain answer.
C20_TenRoundTrips ==
    \A c \in CallIds :
        (Ended(c) /\ Cardinality(OwnToolRequests(c)) <= 9) =>
            calls[c].pc = "returned" /\ EndsWithPlainAnswer(c)

\* C20, amended: the cap counts supersteps, one per model turn and one per
\* tool turn. A call with k tool-requesting model turns needs 2k + 1 of them,
\* so for every k from 0 to 4 it stays under the cap and ends normally at the
\* plain answer; no call returns after more than 4 tool-requesting turns.
C20_FourRoundTrips ==
    \A c \in CallIds :
        LET k == Cardinality(OwnToolRequests(c))
        IN  /\ calls[c].pc = "returned" =>
                   /\ k <= 4
                   /\ calls[c].steps = 2 * k + 1
                   /\ EndsWithPlainAnswer(c)
            /\ (InFlight(c) /\ k <= 4) => calls[c].steps < RecursionLimit
            /\ calls[c].pc = "raised" => k > 4

\* A call returned its plain answer after four tool-requesting model turns,
\* in nine supersteps.
C20_Witness ==
    \E c \in CallIds :
        /\ calls[c].pc = "returned"
        /\ Cardinality(OwnToolRequests(c)) = 4
        /\ calls[c].steps = 9
        /\ EndsWithPlainAnswer(c)

----------------------------------------------------------------------------
\* The calls that have begun on session key k.
CallsOn(k) == {c \in CallIds : calls[c].pc # "idle" /\ calls[c].thread = k}

\* The user texts of a message list.
UserTexts(messages) ==
    {messages[i].content : i \in IndicesOf(messages, "human")}

\* C22: with calls on two session keys interleaved, the history of a key is
\* the one written by the latest call on that key, a call on the default key
\* holds none of the voice session's user texts and a call of the voice
\* session none of the default key's; every chat of the voice session is
\* keyed by its session id and every card it schedules carries that same id.
C22_SessionsIsolated ==
    /\ \A k \in Threads :
           store[k] = IF CallsOn(k) = {} THEN <<>>
                      ELSE calls[Max(CallsOn(k))].msgs
    /\ \A c \in CallIds :
           calls[c].pc # "idle" =>
               IF calls[c].thread = UserId
               THEN UserTexts(calls[c].msgs) \subseteq DefaultKeyInputs
               ELSE UserTexts(calls[c].msgs) \cap DefaultKeyInputs = {}
    /\ \A t \in VoiceTurns :
           /\ turns[t].pc \in {"chat", "done", "raised"} =>
                  calls[t].thread = SessionId
           /\ tasks[t].status # "none" =>
                  /\ tasks[t].session_id = SessionId
                  /\ tasks[t].session_id = calls[t].thread
    /\ \A c \in DefaultKeyCalls :
           calls[c].pc # "idle" => calls[c].thread = UserId

\* A call of the voice session and a call on the default key in flight
\* together, each past its first tool round, a card of the session scheduled.
C22_Witness ==
    /\ \E t \in VoiceTurns, c \in DefaultKeyCalls :
           /\ InFlight(t) /\ InFlight(c)
           /\ calls[t].thread = SessionId /\ calls[c].thread = UserId
           /\ OwnIndices(t, "tool") # {}
           /\ OwnIndices(c, "tool") # {}
    /\ \E t \in VoiceTurns : tasks[t].status # "none"

----------------------------------------------------------------------------
\* C23: for every chat call of the text loop that has returned, the history
\* the call found is a prefix of the history it left, and what it added is the
\* new user turn (after the system instruction when the history was empty)
\* followed by model turns and tool-result turns only.
C23_HistoryOnlyGrows ==
    \A c \in CallIds :
        calls[c].pc = "returned" =>
            LET messages == calls[c].msgs
                base == calls[c].base
                added == SubSeq(messages, base + 1, Len(messages))
                user == IF base = 0 THEN 2 ELSE 1
            IN  /\ c > 1 => SubSeq(messages, 1, base) = calls[c - 1].msgs
                /\ base = 0 => added[1].role = "system"
                /\ Len(added) > user
                /\ added[user].role = "human"
                /\ \A i \in (user + 1)..Len(added) :
                       added[i].role \in {"ai", "tool"}

----------------------------------------------------------------------------
\* The identifier stored when the i-th handled turn ran its tests: that of
\* the latest earlier turn that scheduled a publish, None before any did.
StoredBefore(i) ==
    LET pub == {j \in 1..(i - 1) : handled[j].published}
    IN  IF pub = {} THEN None ELSE handled[Max(pub)].id

\* C24: a voice turn with user text schedules the publish exactly when its
\* identifier differs from the stored one and its lower-cased text contains a
\* keyword; the stored identifier is the one of the latest turn that
\* scheduled a publish, so a turn that schedules none leaves it as it was.
C24_PublishIffNewIdAndKeyword ==
    /\ \A i \in 1..Len(handled) :
           /\ handled[i].published <=>
                  /\ handled[i].id # StoredBefore(i)
                  /\ \E kw \in Keywords : Contains(kw, Lower(handled[i].text))
           /\ handled[i].published <=> tasks[handled[i].turn].status # "none"
    /\ last_handled_user_msg_id = StoredBefore(Len(handled) + 1)

\* A turn published, a turn with another identifier and no keyword scheduled
\* nothing, and a later turn with a keyword and the first identifier is still
\* taken as handled.
C24_Witness ==
    \E i, k, j \in 1..Len(handled) :
        /\ i < k /\ k < j
        /\ handled[i].published
        /\ handled[k].id # handled[i].id /\ ~ handled[k].published
        /\ handled[j].id = handled[i].id /\ ~ handled[j].published
        /\ HasKeyword(handled[j].text)

----------------------------------------------------------------------------
\* C28: every voice turn with user text that has ended made one chat call,
\* with that text as its user turn and the session id as key, and emitted one
\* chunk whose content is the spoken text that call returned.
C28_OneChatOneChunk ==
    \A t \in CallIds :
        (Finished(t) /\ turns[t].user_text # NoText) =>
            /\ calls[t].thread = SessionId
            /\ calls[t].msgs[calls[t].base + InputLen].role = "human"
            /\ calls[t].msgs[calls[t].base + InputLen].content = turns[t].user_text
            /\ calls[t].pc = "returned"
            /\ turns[t].pc = "done"
            /\ turns[t].chunk = calls[t].voice

----------------------------------------------------------------------------
\* The negative-amount transactions of the three debt categories.
DebtExpenses == {i \in Expenses : transactions[i].category \in debt_categories}

\* C25: total_debt_payments is the sum of abs(amount) over the negative-amount
\* transactions of the debt categories, and monthly_breakdown has one key per
\* month with such a transaction, with the sum of that month as value; a
\* positive amount in a debt category adds nothing.
C25_DebtSumsNegativeOnly ==
    report.name = "get_debt_analysis" =>
        LET debt == report.value
            monthly == debt.monthly_breakdown
        IN  /\ debt.total_debt_payments = Num(TotalAt(DebtExpenses))
            /\ Keys(monthly) = {MonthKey(transactions[i].date) : i \in DebtExpenses}
            /\ \A k \in 1..Len(monthly) :
                   monthly[k].value =
                       TotalAt({i \in DebtExpenses :
                                    MonthKey(transactions[i].date) = monthly[k].key})

----------------------------------------------------------------------------
\* The kinds of the lines of the agent's voice context, in order.
ContextKinds == [i \in 1..Len(agent.voice_context) |-> agent.voice_context[i].kind]

\* The lines the transaction list calls for: the two spending lines when
\* there is an expense, the income line when there is income, the debt line
\* when a transaction of a debt category has a non-zero amount.
ExpectedKinds ==
    (IF Expenses # {} THEN <<"top_spending", "total_spending">> ELSE <<>>)
        \o (IF Incomes # {} THEN <<"income">> ELSE <<>>)
        \o (IF \E i \in Positions : /\ transactions[i].category \in debt_categories
                                    /\ transactions[i].amount # 0
            THEN <<"debt">> ELSE <<>>)

\* C26 as stated: the voice context of a constructed agent has at most three
\* lines, and it is the no-data sentence iff no line was produced.
C26_AtMostThreeLines ==
    agent.status = "constructed" =>
        /\ Len(agent.voice_context) <= 3
        /\ ContextKinds = <<"no_data">> <=> ExpectedKinds = <<>>

\* C26, amended: the voice context of a constructed agent has at most four
\* lines, in this order: the top categories and the spending total (both or
\* neither), the income line, the debt line, each present exactly when its
\* report has data; it is the no-data sentence iff none is; and every system
\* prompt carries the context that was built at construction.
C26_AtMostFourLines ==
    /\ agent.status = "constructed" =>
           /\ Len(agent.voice_context) <= 4
           /\ ContextKinds = IF ExpectedKinds = <<>> THEN <<"no_data">>
                             ELSE ExpectedKinds
    /\ agent.status # "constructed" => agent.voice_context = <<>>
    /\ report.name = "get_system_prompt" =>
           /\ agent.status = "constructed"
           /\ report.value.snapshot = agent.voice_context

\* The system prompt of an agent whose context has all four lines.
C26_Witness ==
    /\ report.name = "get_system_prompt"
    /\ Len(report.value.snapshot) = 4
    /\ ContextKinds = <<"top_spending", "total_spending", "income", "debt">>

----------------------------------------------------------------------------
\* Mean of the expense totals of the calendar months that have an expense.
MeanMonthlySpending ==
    LET spent == {MonthKey(transactions[i].date) : i \in Expenses}
    IN  IF spent = {} THEN Zero ELSE Frac(TotalAt(Expenses), Cardinality(spent))

CategoryTotal(category) == TotalAt(ExpensesOf(category))

\* The categories whose expense total per elapsed month is above 0.3 times
\* the mean monthly spending.
HighCategories ==
    {c \in {transactions[i].category : i \in Expenses} :
        FLess(FMul(Frac(3, 10), MeanMonthlySpending),
              FDiv(Num(CategoryTotal(c)), ElapsedMonths(Positions)))}

\* The transactions of a category, whatever their sign.
CountOf(category) ==
    Cardinality({i \in Positions : transactions[i].category = category})

\* count > per_month * months * 1.5
FrequencyAbove(category, per_month) ==
    FLess(FMul(FMul(Num(per_month), ElapsedMonths(Positions)), Frac(3, 2)),
          Num(CountOf(category)))

\* The reported patterns are the high_spending entries of HighCategories by
\* descending category total, then frequent_fuel when fuel holds, then
\* frequent_dining when dining holds.
PatternsAre(fuel, dining) ==
    LET patterns == report.value
        high == Cardinality(HighCategories)
    IN  /\ Len(patterns) = high + (IF fuel THEN 1 ELSE 0) + (IF dining THEN 1 ELSE 0)
        /\ \A i \in 1..high :
               /\ patterns[i].type = "high_spending"
               /\ patterns[i].category \in HighCategories
               /\ patterns[i].monthly_average =
                      FDiv(Num(CategoryTotal(patterns[i].category)),
                           ElapsedMonths(Positions))
        /\ \A i, j \in 1..high :
               i < j => /\ patterns[i].category # patterns[j].category
                        /\ CategoryTotal(patterns[i].category)
                               >= CategoryTotal(patterns[j].category)
        /\ fuel => /\ patterns[high + 1].type = "frequent_fuel"
                   /\ patterns[high + 1].frequency = CountOf("fuel")
        /\ dining => /\ patterns[Len(patterns)].type = "frequent_dining"
                     /\ patterns[Len(patterns)].frequency = CountOf("dining")

\* C27 as stated: the patterns are the high_spending entries in descending
\* order of category total, then frequent_fuel iff the fuel transaction count
\* is above 4*months*1.5, then frequent_dining iff the dining transaction
\* count is above 8*months*1.5.
C27_FlagsByCountAlone ==
    report.name = "identify_spending_patterns" =>
        PatternsAre(FrequencyAbove("fuel", 4), FrequencyAbove("dining", 8))

\* C27, amended: as above, but frequent_fuel (frequent_dining) is reported iff
\* fuel (dining) has at least one expense and the count of all its
\* transactions is above the threshold.
C27_FlagsNeedAnExpense ==
    report.name = "identify_spending_patterns" =>
        PatternsAre(ExpensesOf("fuel") # {} /\ FrequencyAbove("fuel", 4),
                    ExpensesOf("dining") # {} /\ FrequencyAbove("dining", 8))

\* Two high_spending entries and frequent_fuel, for a list with one fuel
\* purchase and six fuel refunds.
C27_Witness ==
    /\ report.name = "identify_spending_patterns"
    /\ Len(report.value) = 3
    /\ report.value[1].type = "high_spending"
    /\ report.value[2].type = "high_spending"
    /\ report.value[3].type = "frequent_fuel"
    /\ Cardinality(ExpensesOf("fuel")) = 1
    /\ CountOf("fuel") = 7

----------------------------------------------------------------------------
\* Average monthly income less mean monthly spending, 0 without income.
MonthlySavings ==
    IF Incomes = {} THEN Zero
    ELSE FSub(AverageMonthlyIncome, MeanMonthlySpending)

\* C29: in every debt report available_for_debt is the monthly savings of the
\* income summary, and the monthly_allocation of each strategy is
\* average_monthly_debt plus half of available_for_debt when that is
\* positive, plus nothing otherwise; it is never below average_monthly_debt.
C29_AllocationFromSavings ==
    report.name = "get_debt_analysis" =>
        LET debt == report.value
            extra == FMax(Zero, FMul(Frac(1, 2), debt.available_for_debt))
        IN  /\ debt.available_for_debt = MonthlySavings
            /\ \A i \in 1..Len(debt.strategies) :
                   /\ debt.strategies[i].monthly_allocation =
                          FAdd(debt.average_monthly_debt, extra)
                   /\ ~ FLess(debt.strategies[i].monthly_allocation,
                              debt.average_monthly_debt)

\* A debt report with strategies for a list whose monthly savings are
\* negative: the allocation is the average monthly debt.
C29_Witness ==
    /\ report.name = "get_debt_analysis"
    /\ Len(report.value.strategies) = 2
    /\ FLess(report.value.available_for_debt, Zero)
    /\ report.value.strategies[1].monthly_allocation
           = report.value.average_monthly_debt

====
